---- MODULE Spec2Model ----
(***************************************************************************)
(* State-machine model of the TaskFlow helpdesk API (src/server.js).       *)
(* The relational tables CLIENTES, SETORES and CHAMADOS and the uploads    *)
(* directory                                                               *)
(* are the state; every Express route handler is one action.  Strings the  *)
(* code converts (emails, query and path parameters) are sequences of      *)
(* one-character strings so that LOWER, trim, the email regex and parseInt *)
(* are computed; all other strings are atoms.  "" stands for an absent or  *)
(* empty (falsy) request field.                                            *)
(***************************************************************************)
EXTENDS Integers, Sequences, FiniteSets, TLC

VARIABLES
    clientes,     \* table CLIENTES: row i has ID_CLIENTE = i (rows are never deleted)
    chamados,     \* table CHAMADOS: a function from the live ID_CHAMADO to rows
    nextChamado,  \* the AUTO_INCREMENT counter of CHAMADOS
    uploads,      \* the file names present in the uploads directory
    fileSeq,      \* how many file names have been generated
    setores,      \* table SETORES: row i has ID_Setor = i (rows are never deleted)
    now,          \* the clock read by new Date()
    collationCI,  \* whether `=` on the string columns ignores letter case
    inflight,     \* the PUT /tickets/:id requests between their queries
    last          \* the last request answered and its response

vars == <<clientes, chamados, nextChamado, uploads, fileSeq, setores, now, collationCI,
          inflight, last>>

userVars == <<clientes>>
ticketVars == <<chamados, nextChamado, uploads, fileSeq>>

------------------------------------------------------------------------------
(* Bounds of the model *)

MaxUsers == 2
MaxSetores == 2
MaxTickets == 1
MaxTime == 1
MaxFiles == 2
MaxFileSeq == 3
NumProcs == 2

------------------------------------------------------------------------------
(* Strings as character sequences *)

Str0 == <<>>

LowerChar(c) ==
    IF c = "A" THEN "a" ELSE IF c = "B" THEN "b" ELSE c

\* SQL LOWER() and String.prototype.toLowerCase()
Lower(s) == [i \in DOMAIN s |-> LowerChar(s[i])]

IsSpace(c) == c = " "

RECURSIVE TrimLeft(_)
TrimLeft(s) ==
    IF Len(s) > 0 /\ IsSpace(Head(s)) THEN TrimLeft(Tail(s)) ELSE s

RECURSIVE TrimRight(_)
TrimRight(s) ==
    IF Len(s) > 0 /\ IsSpace(s[Len(s)]) THEN TrimRight(SubSeq(s, 1, Len(s) - 1)) ELSE s

\* String.prototype.trim()
Trim(s) == TrimRight(TrimLeft(s))

\* /^[^\s@]+@[^\s@]+\.[^\s@]+$/.test(s)
EmailRegexTest(s) ==
    /\ \A i \in DOMAIN s : ~IsSpace(s[i])
    /\ Cardinality({i \in DOMAIN s : s[i] = "@"}) = 1
    /\ \E i \in DOMAIN s :
          /\ s[i] = "@"
          /\ i > 1
          /\ \E j \in DOMAIN s : s[j] = "." /\ j > i + 1 /\ j < Len(s)

DigitChars == <<"0", "1", "2", "3", "4", "5", "6", "7", "8", "9">>

IsDigit(c) == \E d \in DOMAIN DigitChars : DigitChars[d] = c

DigitVal(c) == (CHOOSE d \in DOMAIN DigitChars : DigitChars[d] = c) - 1

RECURSIVE DigitPrefix(_, _)
\* value of the longest digit prefix of s, accumulated on acc
DigitPrefix(s, acc) ==
    IF Len(s) > 0 /\ IsDigit(Head(s))
    THEN DigitPrefix(Tail(s), 10 * acc + DigitVal(Head(s)))
    ELSE acc

\* parseInt(s, 10): a record, nan = TRUE for NaN
ParseInt(s) ==
    LET t == TrimLeft(s)
        neg == Len(t) > 0 /\ Head(t) = "-"
        u == IF Len(t) > 0 /\ Head(t) \in {"-", "+"} THEN Tail(t) ELSE t
    IN  IF Len(u) = 0 \/ ~IsDigit(Head(u))
        THEN [nan |-> TRUE, val |-> 0]
        ELSE [nan |-> FALSE,
              val |-> IF neg THEN 0 - DigitPrefix(u, 0) ELSE DigitPrefix(u, 0)]

RECURSIVE JsString(_)
\* String(n) of a non-negative integer
JsString(n) ==
    IF n < 10 THEN <<DigitChars[n + 1]>>
    ELSE Append(JsString(n \div 10), DigitChars[(n % 10) + 1])

\* the number MySQL compares an integer column with when the parameter is a string
SqlToInt(s) == IF ParseInt(s).nan THEN 0 ELSE ParseInt(s).val

\* a nullable column holds the empty set (NULL) or the singleton of its value
NULL == {}

Val(v) == {v}

\* JavaScript truthiness of a request string field
Falsy(v) == v = ""

\* JavaScript truthiness of a character-sequence field
FalsySeq(s) == Len(s) = 0

\* bcrypt.hash(Senha, 12) and bcrypt.compare(Senha, hash)
BcryptHash(senha) == <<"bcrypt", senha>>

BcryptCompare(senha, hash) == hash = BcryptHash(senha)

\* the SQL comparison `col = ?` on a string column under the table's collation
SqlEq(a, b) == IF collationCI THEN Lower(a) = Lower(b) ELSE a = b

------------------------------------------------------------------------------
(* Responses *)

Resp(op, req, status, body, out) ==
    [op |-> op, req |-> req, status |-> status, body |-> body, out |-> out]

NoOut == <<>>

------------------------------------------------------------------------------
(* Request values of the user directory *)

ea == <<"a", "@", "x", ".", "y">>
eA == <<"A", "@", "x", ".", "y">>
eb == <<"b", "@", "x", ".", "y">>
ePad == <<" ", "a", "@", "x", ".", "y">>
eBad == <<"a", "x">>

UserIds == 1..(MaxUsers + 1)

RegisterArgs ==
    {[Nome |-> "n", Email |-> e, Senha |-> "p", Perfil_Acesso |-> pf] :
        e \in {ea, eA, eb, eBad}, pf \in {"", "Tecnico"}}
    \cup {[Nome |-> "", Email |-> ea, Senha |-> "p", Perfil_Acesso |-> ""],
          [Nome |-> "n", Email |-> Str0, Senha |-> "p", Perfil_Acesso |-> ""],
          [Nome |-> "n", Email |-> ea, Senha |-> "", Perfil_Acesso |-> ""],
          [Nome |-> "n", Email |-> eb, Senha |-> "p", Perfil_Acesso |-> "Root"]}

LoginArgs ==
    {[Email |-> e, Senha |-> s] : e \in {ea, eA, eb, ePad}, s \in {"p", "q"}}
    \cup {[Email |-> Str0, Senha |-> "p"], [Email |-> ea, Senha |-> ""]}

PerfilArgs ==
    {[ID_CLIENTE |-> i, Nome |-> "n", Email |-> e, Senha |-> s] :
        i \in UserIds, e \in {eA, eb}, s \in {"", "q"}}
    \cup {[ID_CLIENTE |-> 0, Nome |-> "n", Email |-> eb, Senha |-> ""],
          [ID_CLIENTE |-> 1, Nome |-> "", Email |-> eb, Senha |-> ""],
          [ID_CLIENTE |-> 1, Nome |-> "n", Email |-> Str0, Senha |-> ""]}

AdminUserArgs ==
    {[id |-> i, Nome |-> "n", Email |-> e, Perfil_Acesso |-> "Admin", Senha |-> s] :
        i \in {<<"1">>, <<"2">>, <<"3">>}, e \in {eA, eb}, s \in {"", "q"}}
    \cup {[id |-> <<"1">>, Nome |-> "", Email |-> eb, Perfil_Acesso |-> "Admin", Senha |-> ""],
          [id |-> <<"1">>, Nome |-> "n", Email |-> Str0, Perfil_Acesso |-> "Admin", Senha |-> ""],
          [id |-> <<"1">>, Nome |-> "n", Email |-> eb, Perfil_Acesso |-> "", Senha |-> ""]}

PathIds == {<<"0">>, <<"1">>, <<"2">>, <<"3">>, <<"x">>}

------------------------------------------------------------------------------
(* CLIENTES *)

\* rows whose id is in the table
ClienteIds == DOMAIN clientes

\* SELECT 1 FROM CLIENTES WHERE LOWER(Email) = LOWER(?) with Email.trim()
EmailJaCadastrado_Exact(email) ==
    \E i \in ClienteIds : clientes[i].Email = Trim(email)

EmailJaCadastrado(email) ==
    \E i \in ClienteIds : Lower(clientes[i].Email) = Lower(Trim(email))

\* POST /clientes
Register(a) ==
    /\ IF Falsy(a.Nome) \/ FalsySeq(a.Email) \/ Falsy(a.Senha)
       THEN /\ last' = Resp("register", a, 400, "Nome, Email e Senha sao obrigatorios.", NoOut)
            /\ UNCHANGED clientes
       ELSE IF ~EmailRegexTest(a.Email)
       THEN /\ last' = Resp("register", a, 400, "Email invalido.", NoOut)
            /\ UNCHANGED clientes
       ELSE IF EmailJaCadastrado(a.Email)
       THEN /\ last' = Resp("register", a, 409, "Email ja cadastrado", NoOut)
            /\ UNCHANGED clientes
       ELSE /\ Len(clientes) < MaxUsers
            /\ clientes' = Append(clientes,
                  [Nome |-> a.Nome,
                   Email |-> Lower(Trim(a.Email)),
                   Senha_hash |-> BcryptHash(a.Senha),
                   Perfil_Acesso |-> IF Falsy(a.Perfil_Acesso) THEN "Usuario" ELSE a.Perfil_Acesso,
                   Ativo |-> 1])
            /\ last' = Resp("register", a, 201, "Usuario cadastrado com sucesso",
                            <<Len(clientes) + 1>>)
    /\ UNCHANGED <<ticketVars, now, setores, collationCI, inflight>>

\* rows selected by the login query (active, email equal ignoring case)
LoginRows(email) ==
    {i \in ClienteIds :
        Lower(clientes[i].Email) = Lower(Trim(email)) /\ clientes[i].Ativo = 1}

\* res.status(401) when the query returns no row
LoginUserNotFound_Distinct(a) ==
    Resp("login", a, 404, "Usuario nao encontrado", NoOut)

LoginUserNotFound(a) ==
    Resp("login", a, 401, "Email ou senha incorretos", NoOut)

\* res.status(401) when bcrypt.compare fails
LoginWrongPassword(a) ==
    Resp("login", a, 401, "Email ou senha incorretos", NoOut)

\* POST /login; LIMIT 1 without ORDER BY returns any one of the matching rows
Login(a) ==
    /\ IF FalsySeq(a.Email) \/ Falsy(a.Senha)
       THEN last' = Resp("login", a, 400, "Email e Senha sao obrigatorios.", NoOut)
       ELSE IF LoginRows(a.Email) = {}
       THEN last' = LoginUserNotFound(a)
       ELSE \E i \in LoginRows(a.Email) :
              IF ~BcryptCompare(a.Senha, clientes[i].Senha_hash)
              THEN last' = LoginWrongPassword(a)
              ELSE last' = Resp("login", a, 200, "Login realizado com sucesso", <<i>>)
    /\ UNCHANGED <<userVars, ticketVars, now, setores, collationCI, inflight>>

\* JavaScript `Senha && Senha.trim() !== ''`
SenhaFornecida(s) == ~Falsy(s)

\* PUT /atualizar-perfil
AtualizarPerfil(a) ==
    /\ IF a.ID_CLIENTE = 0 \/ Falsy(a.Nome) \/ FalsySeq(a.Email)
       THEN /\ last' = Resp("perfil", a, 400, "ID_CLIENTE, Nome e Email sao obrigatorios", NoOut)
            /\ UNCHANGED clientes
       ELSE IF \E i \in ClienteIds : SqlEq(clientes[i].Email, a.Email) /\ i # a.ID_CLIENTE
       THEN /\ last' = Resp("perfil", a, 409, "Email ja esta em uso por outro usuario", NoOut)
            /\ UNCHANGED clientes
       ELSE IF a.ID_CLIENTE \notin ClienteIds
       THEN /\ last' = Resp("perfil", a, 404, "Usuario nao encontrado", NoOut)
            /\ UNCHANGED clientes
       ELSE /\ clientes' = [clientes EXCEPT ![a.ID_CLIENTE] =
                  [@ EXCEPT !.Nome = a.Nome,
                            !.Email = a.Email,
                            !.Senha_hash = IF SenhaFornecida(a.Senha)
                                           THEN BcryptHash(a.Senha) ELSE @]]
            /\ last' = Resp("perfil", a, 200, "Perfil atualizado com sucesso", NoOut)
    /\ UNCHANGED <<ticketVars, now, setores, collationCI, inflight>>

\* PUT /admin/usuarios/:id
AdminUpdateUsuario(a) ==
    LET userId == ParseInt(a.id) IN
    /\ IF Falsy(a.Nome) \/ FalsySeq(a.Email) \/ Falsy(a.Perfil_Acesso)
       THEN /\ last' = Resp("adminUser", a, 400, "Nome, Email e Perfil_Acesso sao obrigatorios.", NoOut)
            /\ UNCHANGED clientes
       ELSE IF \E i \in ClienteIds :
                  SqlEq(clientes[i].Email, a.Email) /\ (userId.nan \/ i # userId.val)
       THEN /\ last' = Resp("adminUser", a, 409, "Email ja esta em uso por outro usuario", NoOut)
            /\ UNCHANGED clientes
       ELSE IF userId.nan \/ userId.val \notin ClienteIds
       THEN /\ last' = Resp("adminUser", a, 404, "Usuario nao encontrado", NoOut)
            /\ UNCHANGED clientes
       ELSE /\ clientes' = [clientes EXCEPT ![userId.val] =
                  [@ EXCEPT !.Nome = a.Nome,
                            !.Email = a.Email,
                            !.Perfil_Acesso = a.Perfil_Acesso,
                            !.Senha_hash = IF SenhaFornecida(a.Senha)
                                           THEN BcryptHash(a.Senha) ELSE @]]
            /\ last' = Resp("adminUser", a, 200, "Usuario atualizado com sucesso", NoOut)
    /\ UNCHANGED <<ticketVars, now, setores, collationCI, inflight>>

\* DELETE /admin/usuarios/:id (soft delete)
\* UPDATE ... SET Ativo = 0 that also wipes the password hash
Desativado_ApagaSenha(tab, id) == [tab EXCEPT ![id].Ativo = 0, ![id].Senha_hash = BcryptHash("")]

\* UPDATE ... SET Ativo = 0 WHERE id
Desativado(tab, id) == [tab EXCEPT ![id].Ativo = 0]

\* UPDATE ... SET Ativo = 1 WHERE id
Reativado(tab, id) == [tab EXCEPT ![id].Ativo = 1]

\* DELETE /admin/usuarios/:id; the response record keeps the table as it was
\* before the request
DeleteUsuario(id) ==
    LET userId == ParseInt(id) IN
    /\ IF userId.nan \/ userId.val <= 0
       THEN /\ last' = Resp("deleteUser", id, 400, "ID do usuario invalido", NoOut)
            /\ UNCHANGED clientes
       ELSE IF userId.val \notin ClienteIds
       THEN /\ last' = Resp("deleteUser", id, 404, "Usuario nao encontrado", NoOut)
            /\ UNCHANGED clientes
       ELSE /\ clientes' = Desativado(clientes, userId.val)
            /\ last' = Resp("deleteUser", id, 200, "Usuario desativado com sucesso",
                            [antes |-> clientes])
    /\ UNCHANGED <<ticketVars, now, setores, collationCI, inflight>>

SetorIds == DOMAIN setores

\* PUT /admin/reativar/:tipo/:id; the response record of a reactivated user
\* keeps the table as it was before the request
Reativar(tipo, id) ==
    LET entityId == ParseInt(id)
        req == [tipo |-> tipo, id |-> id]
    IN
    /\ IF entityId.nan \/ entityId.val <= 0
       THEN /\ last' = Resp("reativar", req, 400, "ID invalido", NoOut)
            /\ UNCHANGED <<clientes, setores>>
       ELSE IF tipo = "usuario"
       THEN IF entityId.val \notin ClienteIds
            THEN /\ last' = Resp("reativar", req, 404, "nao encontrado", NoOut)
                 /\ UNCHANGED <<clientes, setores>>
            ELSE /\ clientes' = Reativado(clientes, entityId.val)
                 /\ last' = Resp("reativar", req, 200, "reativado com sucesso",
                                 [antes |-> clientes])
                 /\ UNCHANGED setores
       ELSE IF tipo = "setor"
       THEN IF entityId.val \notin SetorIds
            THEN /\ last' = Resp("reativar", req, 404, "nao encontrado", NoOut)
                 /\ UNCHANGED <<clientes, setores>>
            ELSE /\ setores' = Reativado(setores, entityId.val)
                 /\ last' = Resp("reativar", req, 200, "reativado com sucesso", NoOut)
                 /\ UNCHANGED clientes
       ELSE /\ last' = Resp("reativar", req, 400, "Tipo invalido. Use usuario ou setor", NoOut)
            /\ UNCHANGED <<clientes, setores>>
    /\ UNCHANGED <<ticketVars, now, collationCI, inflight>>

\* PUT /admin/reativar/usuario/:id
ReativarUsuario(id) == Reativar("usuario", id)

RecuperarArgs == {ea, eA, eb, Str0}

\* SELECT ID_CLIENTE, Nome FROM CLIENTES WHERE Email = ?
RecuperarRows(email) == {i \in ClienteIds : SqlEq(clientes[i].Email, email)}

\* the body sent when no row has the email
RecuperarNaoEncontrado == "Se o email existir, enviaremos instrucoes"

\* the body sent when a row has the email
RecuperarEncontrado == "Instrucoes de recuperacao enviadas para seu email"

\* POST /recuperar-senha
RecuperarSenha(email) ==
    /\ IF FalsySeq(email)
       THEN last' = Resp("recuperar", email, 400, "Email e obrigatorio", NoOut)
       ELSE IF RecuperarRows(email) = {}
       THEN last' = Resp("recuperar", email, 200, RecuperarNaoEncontrado, NoOut)
       ELSE last' = Resp("recuperar", email, 200, RecuperarEncontrado, NoOut)
    /\ UNCHANGED <<userVars, ticketVars, now, setores, collationCI, inflight>>

------------------------------------------------------------------------------
(* The user directory on an empty database, under either collation *)

NoRequest == Resp("init", Str0, 0, "", NoOut)

InitUsers ==
    /\ clientes = <<>>
    /\ chamados = <<>>
    /\ nextChamado = 1
    /\ uploads = {}
    /\ fileSeq = 0
    /\ setores = <<>>
    /\ now = 0
    /\ collationCI \in BOOLEAN
    /\ inflight = [p \in 1..NumProcs |-> [pc |-> "idle"]]
    /\ last = NoRequest

NextUsers ==
    \/ \E a \in RegisterArgs : Register(a)
    \/ \E a \in LoginArgs : Login(a)
    \/ \E a \in PerfilArgs : AtualizarPerfil(a)
    \/ \E a \in AdminUserArgs : AdminUpdateUsuario(a)
    \/ \E id \in PathIds : DeleteUsuario(id)
    \/ \E id \in PathIds : ReativarUsuario(id)
    \/ \E email \in RecuperarArgs : RecuperarSenha(email)

SpecUsers == InitUsers /\ [][NextUsers]_vars

------------------------------------------------------------------------------
(* SETORES *)

sAb == <<"a", "b">>
sAB == <<"A", "B">>
sB == <<"b">>
sPad == <<" ", "A", "b">>
sBlank == <<" ">>

SetorArgs == {sAb, sAB, sB, sPad, sBlank, Str0}

\* SELECT ID_Setor, Ativo FROM SETORES WHERE Nome = ? (case-sensitive variant)
SetorExists_Exact(nome) == {i \in SetorIds : setores[i].Nome = nome}

\* SELECT ID_Setor, Ativo FROM SETORES WHERE LOWER(Nome) = LOWER(?)
SetorExists(nome) == {i \in SetorIds : Lower(setores[i].Nome) = Lower(nome)}

\* POST /admin/setores
CreateSetor(nome) ==
    /\ IF FalsySeq(nome) \/ Trim(nome) = Str0
       THEN /\ last' = Resp("createSetor", nome, 400, "Nome do setor e obrigatorio", NoOut)
            /\ UNCHANGED setores
       ELSE IF SetorExists(Trim(nome)) # {}
       THEN \E i \in SetorExists(Trim(nome)) :  \* LIMIT 1
              IF setores[i].Ativo = 0
              THEN /\ setores' = [setores EXCEPT ![i].Ativo = 1]
                   /\ last' = Resp("createSetor", nome, 200, "Setor reativado com sucesso",
                                   [id |-> i])
              ELSE /\ last' = Resp("createSetor", nome, 409, "Setor ja existe", NoOut)
                   /\ UNCHANGED setores
       ELSE /\ Len(setores) < MaxSetores
            /\ setores' = Append(setores, [Nome |-> Trim(nome), Ativo |-> 1])
            /\ last' = Resp("createSetor", nome, 201, "Setor criado com sucesso",
                            [id |-> Len(setores) + 1])
    /\ UNCHANGED <<userVars, ticketVars, now, collationCI, inflight>>

\* DELETE /admin/setores/:id
DeleteSetor(id) ==
    LET setId == ParseInt(id) IN
    /\ IF setId.nan \/ setId.val <= 0
       THEN /\ last' = Resp("deleteSetor", id, 400, "ID do setor invalido", NoOut)
            /\ UNCHANGED setores
       ELSE IF setId.val \notin SetorIds
       THEN /\ last' = Resp("deleteSetor", id, 404, "Setor nao encontrado", NoOut)
            /\ UNCHANGED setores
       ELSE /\ setores' = Desativado(setores, setId.val)
            /\ last' = Resp("deleteSetor", id, 200, "Setor desativado com sucesso", NoOut)
    /\ UNCHANGED <<userVars, ticketVars, now, collationCI, inflight>>

ReativarTipos == {"usuario", "setor", "outro"}

------------------------------------------------------------------------------
(* Claims on the user directory *)

\* some row's email equals e ignoring letter case
SameEmailRow(e) == \E i \in ClienteIds : Lower(clientes[i].Email) = Lower(e)

\* a registration request that passes the field and syntax validation
ValidRegister(r) ==
    /\ r.op = "register"
    /\ ~Falsy(r.req.Nome) /\ ~Falsy(r.req.Senha)
    /\ EmailRegexTest(r.req.Email)

\* C6: a registration whose email equals, ignoring letter case, the email of
\* an existing user row is answered 409 and inserts no row.
C6_RegisterCaseConflict ==
    [][(ValidRegister(last') /\ SameEmailRow(last'.req.Email))
          => (last'.status = 409 /\ clientes' = clientes)]_vars

\* C6 witness: a 409 for an email that differs from a stored one only in case
C6_Witness ==
    /\ last.op = "register" /\ last.status = 409
    /\ \E i \in ClienteIds :
          /\ clientes[i].Email # last.req.Email
          /\ Lower(clientes[i].Email) = Lower(last.req.Email)

\* C7: no two active users have emails that are equal ignoring letter case.
C7_ActiveEmailsUnique ==
    \A i, j \in ClienteIds :
        (i # j /\ clientes[i].Ativo = 1 /\ clientes[j].Ativo = 1)
            => Lower(clientes[i].Email) # Lower(clientes[j].Email)

\* a login request with both fields non-empty
ValidLogin(r) ==
    r.op = "login" /\ ~FalsySeq(r.req.Email) /\ ~Falsy(r.req.Senha)

\* C8: a login succeeds only as an active user whose password verifies; while
\* a user is soft-deleted every login for that user's email is answered 401;
\* for an active user the login with the correct password succeeds.
C8_LoginOnlyActive ==
    [][ValidLogin(last') =>
          /\ last'.status = 200 =>
                \E i \in ClienteIds :
                    /\ last'.out = <<i>>
                    /\ clientes[i].Ativo = 1
                    /\ Lower(clientes[i].Email) = Lower(Trim(last'.req.Email))
                    /\ BcryptCompare(last'.req.Senha, clientes[i].Senha_hash)
          /\ (\E i \in ClienteIds :
                    /\ clientes[i].Ativo = 0
                    /\ Lower(clientes[i].Email) = Lower(Trim(last'.req.Email)))
                => last'.status = 401
          /\ (\E i \in ClienteIds :
                    /\ clientes[i].Ativo = 1
                    /\ Lower(clientes[i].Email) = Lower(Trim(last'.req.Email))
                    /\ BcryptCompare(last'.req.Senha, clientes[i].Senha_hash))
                => last'.status = 200]_vars

\* the one response of every failed login
LoginFailure(r) ==
    r.status = 401 /\ r.body = "Email ou senha incorretos" /\ r.out = NoOut

\* C9: for non-empty email and password the response is the same 401 and
\* body when no row has the email, when the rows having it are inactive, and
\* when the password does not verify.
C9_LoginFailsUniformly ==
    [][ValidLogin(last') =>
          LET e == Trim(last'.req.Email)
              rows == {i \in ClienteIds : Lower(clientes[i].Email) = Lower(e)}
              active == {i \in rows : clientes[i].Ativo = 1}
          IN  /\ rows = {} => LoginFailure(last')
              /\ (rows # {} /\ active = {}) => LoginFailure(last')
              /\ (active # {} /\ \A i \in active :
                        ~BcryptCompare(last'.req.Senha, clientes[i].Senha_hash))
                    => LoginFailure(last')
              /\ last'.status # 200 => LoginFailure(last')]_vars

\* C9 witness: a failed login against an active user (wrong password) reached
\* after a failed login is possible for an inactive one
C9_Witness ==
    /\ ValidLogin(last) /\ LoginFailure(last)
    /\ \E i, j \in ClienteIds :
          /\ clientes[i].Ativo = 1
          /\ Lower(clientes[i].Email) = Lower(Trim(last.req.Email))
          /\ ~BcryptCompare(last.req.Senha, clientes[i].Senha_hash)
          /\ clientes[j].Ativo = 0

------------------------------------------------------------------------------
(* CHAMADOS: helpers *)

ec == <<"c", "@", "x", ".", "y">>

TicketIds == DOMAIN chamados

FileTokens == <<"img1", "img2", "img3", "img4", "img5", "img6">>

\* `img_${timestamp}_${randomStr}${extensao}`: the k-th generated name
FileName(k, ext) == <<FileTokens[k]>> \o ext

RECURSIVE Join(_)
\* Array.prototype.join(',')
Join(names) ==
    IF Len(names) = 0 THEN Str0
    ELSE IF Len(names) = 1 THEN names[1]
    ELSE names[1] \o <<",">> \o Join(Tail(names))

RECURSIVE SplitAcc(_, _)
\* String.prototype.split(','), cur is the piece being read
SplitAcc(s, cur) ==
    IF Len(s) = 0 THEN <<cur>>
    ELSE IF Head(s) = "," THEN <<cur>> \o SplitAcc(Tail(s), Str0)
    ELSE SplitAcc(Tail(s), Append(cur, Head(s)))

Split(s) == SplitAcc(s, Str0)

\* `/uploads/${img}`
PublicPath(img) == <<"/uploads/">> \o img

\* imagensPaths.length > 0 ? imagensPaths.join(',') : null
ImagemColumn(names) == IF Len(names) > 0 THEN Val(Join(names)) ELSE NULL

\* the names pushed to imagensPaths for n uploaded files, in upload order; a
\* file whose writeFileSync throws (index in wfail) is skipped
NewFileNames(n, ext, wfail) ==
    LET files == [k \in 1..n |-> [i |-> k, fileName |-> FileName(fileSeq + k, Lower(ext))]]
        saved == SelectSeq(files, LAMBDA f : f.i \notin wfail)
    IN  [k \in DOMAIN saved |-> saved[k].fileName]

Range(f) == {f[i] : i \in DOMAIN f}

Prioridades == {"Baixa", "Media", "Alta"}

------------------------------------------------------------------------------
(* POST /tickets *)

\* extensions of the uploaded files' original names (path.extname)
ExtP == <<".", "p">>
ExtComma == <<".", "p", ",", "g">>

CreateArgs ==
    {[Titulo |-> "T1", Descricao |-> "D1", Prioridade |-> "Alta", ID_Cliente |-> c,
      Nome_Cliente |-> "n", ID_Setor |-> <<"1">>, files |-> n, ext |-> ExtP, wfail |-> {}] :
        c \in {<<"1">>, <<"2">>}, n \in 0..MaxFiles}
    \cup {[Titulo |-> f[1], Descricao |-> "D1", Prioridade |-> f[2], ID_Cliente |-> f[3],
           Nome_Cliente |-> "n", ID_Setor |-> f[4], files |-> f[5], ext |-> f[6],
           wfail |-> f[7]] :
            f \in {<<"", "Alta", <<"1">>, Str0, 0, ExtP, {}>>,
                   <<"T1", "Urgente", <<"1">>, Str0, 0, ExtP, {}>>,
                   <<"T1", "Baixa", <<"x">>, Str0, 1, ExtP, {}>>,
                   <<"T1", "Baixa", <<"1">>, <<"x">>, 0, ExtP, {}>>,
                   <<"T1", "Baixa", <<"1">>, Str0, 0, ExtP, {}>>,
                   <<"T1", "Media", <<"1">>, Str0, 1, ExtComma, {}>>,
                   <<"T1", "Media", <<"1">>, Str0, MaxFiles, ExtP, {1}>>}}

CreateTicket(a) ==
    /\ IF Falsy(a.Titulo) \/ Falsy(a.Descricao) \/ Falsy(a.Prioridade)
            \/ FalsySeq(a.ID_Cliente) \/ Falsy(a.Nome_Cliente)
       THEN /\ last' = Resp("create", a, 400,
                            "Titulo, Descricao, Prioridade e Cliente sao obrigatorios.", NoOut)
            /\ UNCHANGED ticketVars
       ELSE IF a.Prioridade \notin Prioridades
       THEN /\ last' = Resp("create", a, 400, "Prioridade invalida. Use: Baixa, Media ou Alta", NoOut)
            /\ UNCHANGED ticketVars
       ELSE LET imagensPaths == NewFileNames(a.files, a.ext, a.wfail)
                idClienteNum == ParseInt(a.ID_Cliente)
                idSetorNum == ParseInt(a.ID_Setor)
            IN  \* the files are written before the ids are validated
                /\ fileSeq + a.files <= MaxFileSeq
                /\ fileSeq' = fileSeq + a.files
                /\ uploads' = uploads \cup Range(imagensPaths)
                /\ IF idClienteNum.nan
                   THEN /\ last' = Resp("create", a, 400, "ID_Cliente invalido", NoOut)
                        /\ UNCHANGED <<chamados, nextChamado>>
                   ELSE IF ~FalsySeq(a.ID_Setor) /\ idSetorNum.nan
                   THEN /\ last' = Resp("create", a, 400, "ID_Setor invalido", NoOut)
                        /\ UNCHANGED <<chamados, nextChamado>>
                   ELSE /\ nextChamado <= MaxTickets
                        /\ chamados' = chamados @@ (nextChamado :>
                              [Titulo |-> a.Titulo,
                               Descricao |-> a.Descricao,
                               ChamadoStatus |-> "Aberto",
                               Data_Abertura |-> now,
                               Data_Fechamento |-> NULL,
                               Prioridade |-> a.Prioridade,
                               ID_CLIENTE |-> idClienteNum.val,
                               Nome_Cliente |-> a.Nome_Cliente,
                               ID_SETOR |-> IF FalsySeq(a.ID_Setor) THEN NULL
                                            ELSE Val(idSetorNum.val),
                               Imagem |-> ImagemColumn(imagensPaths),
                               Tecnico |-> NULL])
                        /\ nextChamado' = nextChamado + 1
                        /\ last' = Resp("create", a, 201, "Ticket criado com sucesso",
                              [id |-> nextChamado,
                               TicketStatus |-> "Aberto",
                               Data_Fechamento |-> NULL,
                               Imagens |-> IF Len(imagensPaths) > 0
                                           THEN [k \in DOMAIN Split(Join(imagensPaths)) |->
                                                    PublicPath(Split(Join(imagensPaths))[k])]
                                           ELSE <<>>])
    /\ UNCHANGED <<userVars, now, setores, collationCI, inflight>>

------------------------------------------------------------------------------
(* PUT /tickets/:id *)

TicketPathIds == {JsString(i) : i \in 1..(MaxTickets + 1)}

StatusInputs == {"", "Aberto", "Em Andamento", "Fechado", "Outro"}

\* a request with the four required fields present
UpdateReq(i, st, c, tc) ==
    [id |-> i, Titulo |-> "T2", Descricao |-> "D2", Prioridade |-> "Baixa", ID_Setor |-> 2,
     TicketStatus |-> st, ID_Cliente |-> c, Tecnico |-> tc]

UpdateArgs ==
    {UpdateReq(JsString(i), st, c, tc) :
        i \in 1..MaxTickets, st \in StatusInputs, c \in {<<"1">>, <<"2">>}, tc \in {"", "zed"}}
    \cup {UpdateReq(<<"1">>, st, <<"3">>, tc) : st \in {"", "Fechado"}, tc \in {"", "zed"}}
    \cup {UpdateReq(i, "Fechado", c, "") :
            <<i, c>> \in {<<JsString(MaxTickets + 1), <<"1">>>>, <<<<"x">>, <<"2">>>>,
                          <<<<"1">>, Str0>>, <<<<"1">>, <<"9">>>>, <<<<"1">>, <<"0", "1">>>>}}
    \cup {[id |-> <<"1">>, Titulo |-> f[1], Descricao |-> f[2], Prioridade |-> f[3],
           ID_Setor |-> f[4], TicketStatus |-> "Fechado", ID_Cliente |-> c, Tecnico |-> "zed"] :
            f \in {<<"", "D2", "Baixa", 2>>, <<"T2", "", "Baixa", 2>>,
                   <<"T2", "D2", "", 2>>, <<"T2", "D2", "Baixa", 0>>},
            c \in {<<"1">>, <<"2">>}}

\* the validation without its ID_Setor test
CamposFaltando_SemSetor(a) ==
    Falsy(a.Titulo) \/ Falsy(a.Descricao) \/ Falsy(a.Prioridade)

\* `!Titulo || !Descricao || !Prioridade || !ID_Setor`
CamposFaltando(a) ==
    Falsy(a.Titulo) \/ Falsy(a.Descricao) \/ Falsy(a.Prioridade) \/ a.ID_Setor = 0

\* SELECT ID_CLIENTE, ChamadoStatus, Data_Fechamento FROM CHAMADOS WHERE ID_CHAMADO = ?
TicketSelect(id) ==
    IF id \in TicketIds
    THEN {[ID_CLIENTE |-> chamados[id].ID_CLIENTE,
           ChamadoStatus |-> chamados[id].ChamadoStatus,
           Data_Fechamento |-> chamados[id].Data_Fechamento]}
    ELSE {}

\* SELECT Perfil_Acesso, Nome FROM CLIENTES WHERE ID_CLIENTE = ?
UserSelect(idCliente) ==
    IF ~FalsySeq(idCliente) /\ SqlToInt(idCliente) \in ClienteIds
    THEN {[Perfil_Acesso |-> clientes[SqlToInt(idCliente)].Perfil_Acesso,
           Nome |-> clientes[SqlToInt(idCliente)].Nome]}
    ELSE {}

\* userPerfil === 'Tecnico' || userPerfil === 'Admin'
EhTecnicoOuAdmin(u) == u.Perfil_Acesso = "Tecnico" \/ u.Perfil_Acesso = "Admin"

\* the ownership test left out
PermissaoNegada_Nunca(a, t, u) == FALSE

\* the 403 branch: an ordinary user who is not the owner
PermissaoNegada(a, t, u) ==
    ~EhTecnicoOuAdmin(u) /\ JsString(t.ID_CLIENTE) # a.ID_Cliente

\* the technician supplied by an ordinary user kept
TecnicoParaSalvar_Fornecido(a, u) ==
    IF Falsy(a.Tecnico)
    THEN IF EhTecnicoOuAdmin(u) THEN Val(u.Nome) ELSE NULL
    ELSE Val(a.Tecnico)

\* tecnicoParaSalvar
TecnicoParaSalvar(a, u) ==
    IF EhTecnicoOuAdmin(u)
    THEN IF Falsy(a.Tecnico) THEN Val(u.Nome) ELSE Val(a.Tecnico)
    ELSE NULL

\* novoStatus = TicketStatus || ticket.ChamadoStatus
NovoStatus(a, t) == IF Falsy(a.TicketStatus) THEN t.ChamadoStatus ELSE a.TicketStatus

\* the closure date stamped on every save with status Fechado
DataFechamento_SempreAgora(a, t, clock) ==
    IF NovoStatus(a, t) = "Fechado" THEN Val(clock)
    ELSE IF NovoStatus(a, t) # "Fechado" /\ t.ChamadoStatus = "Fechado" THEN NULL
    ELSE t.Data_Fechamento

\* the closure date not cleared on reopening
DataFechamento_SemLimpar(a, t, clock) ==
    IF NovoStatus(a, t) = "Fechado" /\ t.ChamadoStatus # "Fechado" THEN Val(clock)
    ELSE t.Data_Fechamento

\* dataFechamento, clock being the value of new Date()
DataFechamento(a, t, clock) ==
    IF NovoStatus(a, t) = "Fechado" /\ t.ChamadoStatus # "Fechado" THEN Val(clock)
    ELSE IF NovoStatus(a, t) # "Fechado" /\ t.ChamadoStatus = "Fechado" THEN NULL
    ELSE t.Data_Fechamento

\* the parameters of the UPDATE statement
UpdateSet(a, t, u, clock) ==
    [Titulo |-> a.Titulo,
     Descricao |-> a.Descricao,
     Prioridade |-> a.Prioridade,
     ID_SETOR |-> Val(a.ID_Setor),
     ChamadoStatus |-> NovoStatus(a, t),
     Tecnico |-> TecnicoParaSalvar(a, u),
     Data_Fechamento |-> DataFechamento(a, t, clock)]

\* an UPDATE that also clears the Imagem column
UpdateRow_LimpaImagem(tab, id, w) ==
    IF id \in DOMAIN tab
    THEN [tab EXCEPT ![id] =
            [@ EXCEPT !.Titulo = w.Titulo,
                      !.Descricao = w.Descricao,
                      !.Prioridade = w.Prioridade,
                      !.ID_SETOR = w.ID_SETOR,
                      !.ChamadoStatus = w.ChamadoStatus,
                      !.Tecnico = w.Tecnico,
                      !.Data_Fechamento = w.Data_Fechamento,
                      !.Imagem = NULL]]
    ELSE tab

\* UPDATE CHAMADOS SET ... WHERE ID_CHAMADO = id
UpdateRow(tab, id, w) ==
    IF id \in DOMAIN tab
    THEN [tab EXCEPT ![id] =
            [@ EXCEPT !.Titulo = w.Titulo,
                      !.Descricao = w.Descricao,
                      !.Prioridade = w.Prioridade,
                      !.ID_SETOR = w.ID_SETOR,
                      !.ChamadoStatus = w.ChamadoStatus,
                      !.Tecnico = w.Tecnico,
                      !.Data_Fechamento = w.Data_Fechamento]]
    ELSE tab

\* the whole handler with no other request between its queries
UpdateTicket(a) ==
    LET ticketId == ParseInt(a.id) IN
    /\ IF CamposFaltando(a)
       THEN /\ last' = Resp("update", a, 400,
                            "Campos obrigatorios: Titulo, Descricao, Prioridade, ID_Setor", NoOut)
            /\ UNCHANGED chamados
       ELSE IF ticketId.nan
       THEN \* WHERE ID_CHAMADO = NaN is rejected by the database
            /\ last' = Resp("update", a, 500, "Erro interno", NoOut)
            /\ UNCHANGED chamados
       ELSE IF TicketSelect(ticketId.val) = {}
       THEN /\ last' = Resp("update", a, 404, "Ticket nao encontrado.", NoOut)
            /\ UNCHANGED chamados
       ELSE IF UserSelect(a.ID_Cliente) = {}
       THEN /\ last' = Resp("update", a, 404, "Usuario nao encontrado.", NoOut)
            /\ UNCHANGED chamados
       ELSE LET t == CHOOSE r \in TicketSelect(ticketId.val) : TRUE
                u == CHOOSE r \in UserSelect(a.ID_Cliente) : TRUE
            IN  IF PermissaoNegada(a, t, u)
                THEN /\ last' = Resp("update", a, 403,
                                     "Voce nao tem permissao para editar este ticket.", NoOut)
                     /\ UNCHANGED chamados
                ELSE /\ chamados' = UpdateRow(chamados, ticketId.val, UpdateSet(a, t, u, now))
                     /\ last' = Resp("update", a, 200, "Ticket atualizado com sucesso", NoOut)
    /\ UNCHANGED <<userVars, nextChamado, uploads, fileSeq, now, setores, collationCI, inflight>>

------------------------------------------------------------------------------
(* DELETE /tickets/:id *)

\* a delete request: the path id, and the user on whose behalf it is sent (the
\* handler reads nothing that identifies the sender)
DeleteReq(i, c) == [id |-> i, ID_Cliente |-> c]

DeleteArgs ==
    {DeleteReq(i, <<"1">>) : i \in TicketPathIds \cup {<<"0">>, <<"x">>}}
    \cup {DeleteReq(<<"1">>, <<"2">>)}

DeleteTicket(a) ==
    LET id == a.id
        ticketId == ParseInt(id) IN
    /\ IF ticketId.nan \/ ticketId.val <= 0
       THEN /\ last' = Resp("delete", a, 400, "ID do ticket invalido", NoOut)
            /\ UNCHANGED chamados
       ELSE IF ticketId.val \notin TicketIds
       THEN /\ last' = Resp("delete", a, 404, "Ticket nao encontrado.", NoOut)
            /\ UNCHANGED chamados
       ELSE /\ chamados' = [i \in TicketIds \ {ticketId.val} |-> chamados[i]]
            /\ last' = Resp("delete", a, 200, "Ticket excluido com sucesso", NoOut)
    /\ UNCHANGED <<userVars, nextChamado, uploads, fileSeq, now, setores, collationCI, inflight>>

\* the clock advances between requests
Tick ==
    /\ now < MaxTime
    /\ now' = now + 1
    /\ UNCHANGED <<userVars, ticketVars, setores, collationCI, inflight, last>>

------------------------------------------------------------------------------
(* The ticket lifecycle, requests handled one at a time *)

SeedUser(nome, email, perfil) ==
    [Nome |-> nome, Email |-> email, Senha_hash |-> BcryptHash("p"),
     Perfil_Acesso |-> perfil, Ativo |-> 1]

\* three registered users: an ordinary user, a technician and an administrator
Init ==
    /\ clientes = <<SeedUser("ana", ea, "Usuario"), SeedUser("tec", eb, "Tecnico"),
                    SeedUser("adm", ec, "Admin")>>
    /\ chamados = <<>>
    /\ nextChamado = 1
    /\ uploads = {}
    /\ fileSeq = 0
    /\ setores = <<>>
    /\ now = 0
    /\ collationCI = FALSE
    /\ inflight = [p \in 1..NumProcs |-> [pc |-> "idle"]]
    /\ last = NoRequest

\* the creation requests that upload no file
CreateArgsNoFiles == {a \in CreateArgs : a.files = 0}

Next ==
    \/ \E a \in CreateArgsNoFiles : CreateTicket(a)
    \/ \E a \in UpdateArgs : UpdateTicket(a)
    \/ \E a \in DeleteArgs : DeleteTicket(a)
    \/ Tick

Spec == Init /\ [][Next]_vars

\* the sector administration, starting without sectors
NextSetores ==
    \/ \E nome \in SetorArgs : CreateSetor(nome)
    \/ \E id \in PathIds : DeleteSetor(id)
    \/ \E tipo \in ReativarTipos, id \in PathIds : Reativar(tipo, id)

SpecSetores == Init /\ [][NextSetores]_vars

------------------------------------------------------------------------------
(* PUT /tickets/:id/imagens *)

\* ticket.Imagem split on ',' and trimmed; empty when the column is null
ImagensAtuais(col) ==
    IF col = NULL \/ col = Val(Str0) THEN <<>>
    ELSE LET parts == Split(CHOOSE v \in col : TRUE)
         IN  [k \in DOMAIN parts |-> Trim(parts[k])]

\* imagensAtuais.filter(img => !imagensParaRemover.includes(img))
FilterRemoved(atuais, remover) == SelectSeq(atuais, LAMBDA img : img \notin Range(remover))

RECURSIVE UnlinkAll(_, _, _)
\* the loop deleting the files of imagensParaRemover in order: a file that is
\* absent is skipped, a file whose unlinkSync throws (in ufail) ends the loop
UnlinkAll(remover, dir, ufail) ==
    IF Len(remover) = 0 THEN [threw |-> FALSE, dir |-> dir]
    ELSE IF Head(remover) \notin dir THEN UnlinkAll(Tail(remover), dir, ufail)
    ELSE IF Head(remover) \in ufail THEN [threw |-> TRUE, dir |-> dir]
    ELSE UnlinkAll(Tail(remover), dir \ {Head(remover)}, ufail)

\* the names written by the loop over req.files up to the first writeFileSync
\* that throws (index in wfail); the extension is not lower-cased here
NovasImagens(n, ext, wfail) ==
    LET upto == IF \E k \in 1..n : k \in wfail
                THEN (CHOOSE k \in 1..n : k \in wfail /\ \A j \in 1..(k - 1) : j \notin wfail) - 1
                ELSE n
    IN  [threw |-> upto < n, paths |-> [k \in 1..upto |-> FileName(fileSeq + k, ext)]]

NoRemover == [given |-> FALSE, valid |-> TRUE, names |-> <<>>]

Remover(names) == [given |-> TRUE, valid |-> TRUE, names |-> names]

\* imagens_remover that JSON.parse rejects
BadRemover == [given |-> TRUE, valid |-> FALSE, names |-> <<>>]

AttachReq(i, rem, n, ext, wfail, ufail) ==
    [id |-> i, imagens_remover |-> rem, files |-> n, ext |-> ext, wfail |-> wfail,
     ufail |-> ufail]

AttachArgs ==
    LET n1 == FileName(1, ExtP)
        n2 == FileName(2, ExtP)
    IN  {AttachReq(<<"1">>, rem, n, ExtP, {}, {}) :
            rem \in {NoRemover, Remover(<<n1>>), Remover(<<n2>>), Remover(<<n1, n2>>)},
            n \in 0..1}
        \cup {AttachReq(<<"1">>, Remover(<<n1, n2>>), 0, ExtP, {}, {n2}),
              AttachReq(<<"1">>, Remover(<<n1>>), 1, ExtP, {}, {n1}),
              AttachReq(<<"1">>, NoRemover, 1, ExtComma, {}, {}),
              AttachReq(<<"1">>, NoRemover, MaxFiles, ExtP, {}, {}),
              AttachReq(<<"1">>, NoRemover, MaxFiles, ExtP, {2}, {}),
              AttachReq(<<"1">>, BadRemover, 1, ExtP, {}, {}),
              AttachReq(JsString(MaxTickets + 1), NoRemover, 1, ExtP, {}, {}),
              AttachReq(<<"x">>, NoRemover, 0, ExtP, {}, {})}

AttachImages(a) ==
    LET ticketId == ParseInt(a.id) IN
    /\ IF ticketId.nan
       THEN \* WHERE ID_CHAMADO = NaN is rejected by the database
            /\ last' = Resp("attach", a, 500, "Erro interno: ", NoOut)
            /\ UNCHANGED ticketVars
       ELSE IF ticketId.val \notin TicketIds
       THEN /\ last' = Resp("attach", a, 404, "Ticket nao encontrado.", NoOut)
            /\ UNCHANGED ticketVars
       ELSE IF a.imagens_remover.given /\ ~a.imagens_remover.valid
       THEN /\ last' = Resp("attach", a, 400, "Formato invalido para imagens_remover", NoOut)
            /\ UNCHANGED ticketVars
       ELSE LET atuais == ImagensAtuais(chamados[ticketId.val].Imagem)
                remover == a.imagens_remover.names
                kept == IF a.imagens_remover.given THEN FilterRemoved(atuais, remover)
                        ELSE atuais
                unl == IF a.imagens_remover.given THEN UnlinkAll(remover, uploads, a.ufail)
                       ELSE [threw |-> FALSE, dir |-> uploads]
                novas == NovasImagens(a.files, a.ext, a.wfail)
                todasImagens == kept \o novas.paths
            IN  IF unl.threw
                THEN \* the exception of unlinkSync is caught with the parse errors
                     /\ last' = Resp("attach", a, 400, "Formato invalido para imagens_remover",
                                     NoOut)
                     /\ uploads' = unl.dir
                     /\ UNCHANGED <<chamados, nextChamado, fileSeq>>
                ELSE /\ fileSeq + a.files <= MaxFileSeq
                     /\ fileSeq' = fileSeq + a.files
                     /\ uploads' = unl.dir \cup Range(novas.paths)
                     /\ UNCHANGED nextChamado
                     /\ IF novas.threw
                        THEN /\ last' = Resp("attach", a, 500, "Erro interno: ", NoOut)
                             /\ UNCHANGED chamados
                        ELSE /\ chamados' = [chamados EXCEPT ![ticketId.val].Imagem =
                                                ImagemColumn(todasImagens)]
                             /\ last' = Resp("attach", a, 200, "Imagens atualizadas com sucesso",
                                   [imagens_adicionadas |-> Len(novas.paths),
                                    imagens_removidas |-> Len(remover),
                                    total_imagens |-> Len(todasImagens),
                                    imagens |-> todasImagens])
    /\ UNCHANGED <<userVars, now, setores, collationCI, inflight>>

\* ticket creation and image attachment, requests handled one at a time
NextImages ==
    \/ \E a \in CreateArgs : CreateTicket(a)
    \/ \E a \in AttachArgs : AttachImages(a)
    \/ Tick

SpecImages == Init /\ [][NextImages]_vars

\* a ticket as POST /tickets stores it for user 1 with the image names given
SeedChamado(names) ==
    [Titulo |-> "T1", Descricao |-> "D1", ChamadoStatus |-> "Aberto", Data_Abertura |-> 0,
     Data_Fechamento |-> NULL, Prioridade |-> "Alta", ID_CLIENTE |-> 1, Nome_Cliente |-> "n",
     ID_SETOR |-> Val(1), Imagem |-> ImagemColumn(names), Tecnico |-> NULL]

\* two tickets have been created, the first with one image
InitStore ==
    /\ clientes = <<SeedUser("ana", ea, "Usuario"), SeedUser("tec", eb, "Tecnico"),
                    SeedUser("adm", ec, "Admin")>>
    /\ chamados = <<SeedChamado(<<FileName(1, ExtP)>>), SeedChamado(<<>>)>>
    /\ nextChamado = 3
    /\ uploads = {FileName(1, ExtP)}
    /\ fileSeq = 1
    /\ setores = <<>>
    /\ now = 0
    /\ collationCI = FALSE
    /\ inflight = [p \in 1..NumProcs |-> [pc |-> "idle"]]
    /\ last = NoRequest

\* attachment requests on either ticket, every file operation succeeding
StoreAttachArgs ==
    {AttachReq(i, rem, n, ExtP, {}, {}) :
        i \in {<<"1">>, <<"2">>},
        rem \in {NoRemover, Remover(<<FileName(1, ExtP)>>), Remover(<<FileName(2, ExtP)>>)},
        n \in 0..1}

StoreCreateArgs == {a \in CreateArgs : a.wfail = {} /\ a.ext = ExtP}

NextStore ==
    \/ \E a \in StoreCreateArgs : CreateTicket(a)
    \/ \E a \in StoreAttachArgs : AttachImages(a)
    \/ Tick

SpecStore == InitStore /\ [][NextStore]_vars

\* creation, update and image attachment of one user's tickets
FrameCreateArgs ==
    {a \in CreateArgs : a.ID_Cliente = <<"1">> /\ a.Prioridade = "Alta" /\ a.Titulo # ""}

FrameUpdateArgs ==
    {a \in UpdateArgs : a.id = <<"1">> /\ a.TicketStatus \in {"Aberto", "Fechado"}
                          /\ a.Tecnico = "zed"}

FrameAttachArgs == {a \in AttachArgs : a.ext = ExtP}

NextFrame ==
    \/ \E a \in FrameCreateArgs : CreateTicket(a)
    \/ \E a \in FrameUpdateArgs : UpdateTicket(a)
    \/ \E a \in FrameAttachArgs : AttachImages(a)
    \/ Tick

SpecFrame == Init /\ [][NextFrame]_vars

------------------------------------------------------------------------------
(* GET /tickets *)

Min(x, y) == IF x <= y THEN x ELSE y

Max(x, y) == IF x >= y THEN x ELSE y

\* parseInt(v, 10) || dflt
ParseIntOr(v, dflt) ==
    IF ParseInt(v).nan \/ ParseInt(v).val = 0 THEN dflt ELSE ParseInt(v).val

\* Math.min(parseInt(limit, 10) || 50, 100)
SafeLimit(limit) == Min(ParseIntOr(limit, 50), 100)

\* Math.max(parseInt(offset, 10) || 0, 0)
SafeOffset(offset) == Max(ParseIntOr(offset, 0), 0)

\* `status && status !== 'null' && status !== 'Status'`, likewise priority
EnumFilterOn(v, label) == v # "" /\ v # "null" /\ v # label

\* `user && user !== 'null' && user !== '0'`, likewise sector
IdFilterOn(v) == ~FalsySeq(v) /\ v # <<"n", "u", "l", "l">> /\ v # <<"0">>

\* the WHERE clause built from the filters that are on
ListWhere(q, i) ==
    /\ EnumFilterOn(q.status, "Status") => chamados[i].ChamadoStatus = q.status
    /\ EnumFilterOn(q.priority, "Prioridade") => chamados[i].Prioridade = q.priority
    /\ IdFilterOn(q.user) => chamados[i].ID_CLIENTE = ParseInt(q.user).val
    /\ IdFilterOn(q.sector) => chamados[i].ID_SETOR = Val(ParseInt(q.sector).val)

\* the orders ORDER BY t.Data_Abertura DESC allows for the rows in ids
OrderedByAbertura(ids) ==
    {o \in [1..Cardinality(ids) -> ids] :
        /\ \A x, y \in DOMAIN o : x # y => o[x] # o[y]
        /\ \A x, y \in DOMAIN o :
              x < y => chamados[o[x]].Data_Abertura >= chamados[o[y]].Data_Abertura}

\* LIMIT lim OFFSET off
LimitOffset(o, lim, off) == SubSeq(o, off + 1, Min(off + lim, Len(o)))

LimitInputs ==
    {Str0, <<"5", "0", "0">>, <<"1", "0", "0">>, <<"1">>, <<"0">>, <<"-", "5">>,
     <<"a", "b", "c">>, <<"7", "x">>}

OffsetInputs == {Str0, <<"-", "5">>, <<"0">>, <<"1">>, <<"a", "b", "c">>}

ListReq(st, pr, us, se, lim, off) ==
    [status |-> st, priority |-> pr, user |-> us, sector |-> se, limit |-> lim, offset |-> off]

ListArgs ==
    {ListReq("", "", Str0, Str0, lim, off) : lim \in LimitInputs, off \in OffsetInputs}
    \cup {ListReq(f[1], f[2], f[3], f[4], Str0, Str0) :
            f \in {<<"Aberto", "", Str0, Str0>>, <<"Status", "Prioridade", <<"0">>, <<"0">>>>,
                   <<"", "Alta", <<"2">>, <<"1">>>>, <<"", "", <<"x">>, Str0>>,
                   <<"Outro", "", Str0, Str0>>, <<"", "Urgente", Str0, Str0>>,
                   <<"", "", Str0, <<"x">>>>, <<"", "", <<"1">>, Str0>>}}

ListTickets(q) ==
    /\ IF \/ IdFilterOn(q.user) /\ ParseInt(q.user).nan
          \/ IdFilterOn(q.sector) /\ ParseInt(q.sector).nan
          \/ SafeLimit(q.limit) < 0
       THEN \* a NaN parameter or a negative LIMIT is rejected by the database
            last' = Resp("list", q, 500, "Erro interno: ",
                         [limit |-> SafeLimit(q.limit), offset |-> SafeOffset(q.offset),
                          rows |-> <<>>])
       ELSE \E o \in OrderedByAbertura({i \in TicketIds : ListWhere(q, i)}) :
              last' = Resp("list", q, 200, "",
                           [limit |-> SafeLimit(q.limit), offset |-> SafeOffset(q.offset),
                            rows |-> LimitOffset(o, SafeLimit(q.limit), SafeOffset(q.offset))])
    /\ UNCHANGED <<userVars, ticketVars, now, setores, collationCI, inflight>>

NextList ==
    \/ \E a \in CreateArgs : CreateTicket(a)
    \/ \E q \in ListArgs : ListTickets(q)
    \/ Tick

SpecList == Init /\ [][NextList]_vars

\* C10: for every limit and offset value the effective limit lies in 1..100
\* (50 when absent), the effective offset is >= 0 (0 when absent), and at
\* most 100 rows are returned.
C10_PaginationClamped ==
    last.op = "list" =>
        /\ last.out.limit \in 1..100
        /\ last.req.limit = Str0 => last.out.limit = 50
        /\ last.out.offset >= 0
        /\ last.req.offset = Str0 => last.out.offset = 0
        /\ Len(last.out.rows) <= 100

------------------------------------------------------------------------------
(* PUT /tickets/:id with its three queries as separate steps, so that the    *)
(* requests of several clients interleave                                    *)

Procs == 1..NumProcs

Idle == [pc |-> "idle"]

ConcCreateArgs == {a \in CreateArgs : a.ID_Cliente = <<"1">> /\ a.files = 0 /\ a.Prioridade = "Alta"}

ConcUpdateArgs ==
    {UpdateReq(<<"1">>, st, c, "") : st \in {"", "Aberto", "Fechado"}, c \in {<<"1">>, <<"2">>}}

\* validation and the SELECT of the ticket row
UpdateBegin(p, a) ==
    LET ticketId == ParseInt(a.id) IN
    /\ inflight[p].pc = "idle"
    /\ IF CamposFaltando(a)
       THEN /\ last' = Resp("update", a, 400,
                            "Campos obrigatorios: Titulo, Descricao, Prioridade, ID_Setor", NoOut)
            /\ UNCHANGED inflight
       ELSE IF ticketId.nan
       THEN /\ last' = Resp("update", a, 500, "Erro interno", NoOut)
            /\ UNCHANGED inflight
       ELSE IF TicketSelect(ticketId.val) = {}
       THEN /\ last' = Resp("update", a, 404, "Ticket nao encontrado.", NoOut)
            /\ UNCHANGED inflight
       ELSE /\ inflight' = [inflight EXCEPT ![p] =
                  [pc |-> "user", a |-> a,
                   t |-> CHOOSE r \in TicketSelect(ticketId.val) : TRUE]]
            /\ UNCHANGED last
    /\ UNCHANGED <<userVars, ticketVars, now, setores, collationCI>>

\* the SELECT of the acting user, the permission rule and the values to write
UpdateUser(p) ==
    LET a == inflight[p].a
        t == inflight[p].t
    IN
    /\ inflight[p].pc = "user"
    /\ IF UserSelect(a.ID_Cliente) = {}
       THEN /\ last' = Resp("update", a, 404, "Usuario nao encontrado.", NoOut)
            /\ inflight' = [inflight EXCEPT ![p] = Idle]
       ELSE LET u == CHOOSE r \in UserSelect(a.ID_Cliente) : TRUE IN
            IF PermissaoNegada(a, t, u)
            THEN /\ last' = Resp("update", a, 403,
                                 "Voce nao tem permissao para editar este ticket.", NoOut)
                 /\ inflight' = [inflight EXCEPT ![p] = Idle]
            ELSE /\ inflight' = [inflight EXCEPT ![p] =
                       [pc |-> "write", a |-> a, t |-> t, w |-> UpdateSet(a, t, u, now)]]
                 /\ UNCHANGED last
    /\ UNCHANGED <<userVars, ticketVars, now, setores, collationCI>>

\* the UPDATE statement and the response
UpdateWrite(p) ==
    /\ inflight[p].pc = "write"
    /\ chamados' = UpdateRow(chamados, ParseInt(inflight[p].a.id).val, inflight[p].w)
    /\ last' = Resp("update", inflight[p].a, 200, "Ticket atualizado com sucesso", NoOut)
    /\ inflight' = [inflight EXCEPT ![p] = Idle]
    /\ UNCHANGED <<userVars, nextChamado, uploads, fileSeq, now, setores, collationCI>>

NextConc ==
    \/ \E a \in ConcCreateArgs : CreateTicket(a)
    \/ \E p \in Procs, a \in ConcUpdateArgs : UpdateBegin(p, a)
    \/ \E p \in Procs : UpdateUser(p)
    \/ \E p \in Procs : UpdateWrite(p)
    \/ \E a \in DeleteArgs : DeleteTicket(a)
    \/ Tick

SpecConc == Init /\ [][NextConc]_vars

------------------------------------------------------------------------------
(* Claims on the ticket update *)

\* C1: every ticket's closed-at is non-null exactly when its stored status
\* is 'Fechado', also when updates of the same ticket interleave.
C1_ClosedIffFechado ==
    \A i \in TicketIds :
        (chamados[i].Data_Fechamento # NULL) <=> (chamados[i].ChamadoStatus = "Fechado")

\* C1 witness: a closed ticket while another request, which read the row when
\* it was not closed, is still to write
C1_Witness ==
    \E i \in TicketIds, p \in Procs :
        /\ chamados[i].ChamadoStatus = "Fechado"
        /\ chamados[i].Data_Fechamento # NULL
        /\ inflight[p].pc = "write"
        /\ inflight[p].t.ChamadoStatus # "Fechado"

\* a step of the whole update handler (Tick alone leaves `last` as it is)
UpdateStep == last'.op = "update" /\ now' = now

\* the ticket id of the update request r
ReqTicket(r) == ParseInt(r.req.id).val

\* the row id of the acting user of the update request r
ReqUser(r) == SqlToInt(r.req.ID_Cliente)

\* C2: a successful update whose TicketStatus is absent or equals the stored
\* status leaves the stored status and closed-at as they were.
C2_SameStatusKeepsClosedAt ==
    [][(/\ UpdateStep
        /\ last'.status = 200
        /\ \/ Falsy(last'.req.TicketStatus)
           \/ last'.req.TicketStatus = chamados[ReqTicket(last')].ChamadoStatus)
          => /\ chamados'[ReqTicket(last')].ChamadoStatus
                    = chamados[ReqTicket(last')].ChamadoStatus
             /\ chamados'[ReqTicket(last')].Data_Fechamento
                    = chamados[ReqTicket(last')].Data_Fechamento]_vars

\* C2 witness: a ticket closed earlier answers a second update with status
\* 'Fechado' and keeps its earlier closure timestamp
C2_Witness ==
    /\ last.op = "update" /\ last.status = 200
    /\ last.req.TicketStatus = "Fechado"
    /\ ReqTicket(last) \in TicketIds
    /\ \E t \in 0..MaxTime :
          t < now /\ chamados[ReqTicket(last)].Data_Fechamento = Val(t)

\* the update request r names an existing ticket and an existing acting user
\* whose role is Usuario and who is not the ticket's owner
UsuarioNotOwner(r) ==
    /\ ~ParseInt(r.req.id).nan
    /\ ReqTicket(r) \in TicketIds
    /\ ~FalsySeq(r.req.ID_Cliente)
    /\ ReqUser(r) \in ClienteIds
    /\ clientes[ReqUser(r)].Perfil_Acesso = "Usuario"
    /\ chamados[ReqTicket(r)].ID_CLIENTE # ReqUser(r)

\* C3 as stated: such a request is answered 403 and changes no row, whatever
\* fields it supplies.
C3_NotOwnerAlways403 ==
    [][(UpdateStep /\ UsuarioNotOwner(last'))
          => (last'.status = 403 /\ chamados' = chamados)]_vars

\* C3 amended: such a request is answered 403 when the four required fields
\* are supplied and 400 otherwise, and in both cases changes no row.
C3_NotOwnerRejected ==
    [][(UpdateStep /\ UsuarioNotOwner(last'))
          => /\ last'.status = (IF CamposFaltando(last'.req) THEN 400 ELSE 403)
             /\ chamados' = chamados]_vars

\* C3 witness: a 403 for an ordinary user on another user's ticket, with a
\* new status and a technician supplied
C3_Witness ==
    /\ last.op = "update" /\ last.status = 403
    /\ UsuarioNotOwner(last)
    /\ last.req.TicketStatus = "Fechado" /\ last.req.Tecnico = "zed"
    /\ chamados[ReqTicket(last)].ChamadoStatus = "Aberto"

\* C4: after a successful update the stored technician is the supplied name
\* for a Tecnico/Admin who supplied one, the acting user's name for a
\* Tecnico/Admin who supplied none, and null for any other acting user.
C4_StoredTechnician ==
    [][(UpdateStep /\ last'.status = 200)
          => LET u == clientes[ReqUser(last')]
                 stored == chamados'[ReqTicket(last')].Tecnico
             IN  IF u.Perfil_Acesso \in {"Tecnico", "Admin"}
                 THEN IF last'.req.Tecnico # ""
                      THEN stored = Val(last'.req.Tecnico)
                      ELSE stored = Val(u.Nome)
                 ELSE stored = NULL]_vars

\* C4 witness: an ordinary user's successful update that supplied a technician
\* left the technician null
C4_Witness ==
    /\ last.op = "update" /\ last.status = 200
    /\ last.req.Tecnico = "zed"
    /\ clientes[ReqUser(last)].Perfil_Acesso = "Usuario"
    /\ ReqTicket(last) \in TicketIds
    /\ chamados[ReqTicket(last)].Tecnico = NULL

\* the update request r names a ticket id or an acting user id with no row
Unresolved(r) ==
    /\ ~ParseInt(r.req.id).nan
    /\ \/ ReqTicket(r) \notin TicketIds
       \/ FalsySeq(r.req.ID_Cliente)
       \/ ReqUser(r) \notin ClienteIds

------------------------------------------------------------------------------
(* Claims about the listing filters *)

\* the status and priority values the specification calls valid
StatusValidos == {"Aberto", "Em Andamento", "Fechado"}

InvalidEnumFilter(v, valid) == v # "" /\ v \notin valid

InvalidIdFilter(v) == ~FalsySeq(v) /\ ParseInt(v).nan

HasInvalidFilter(q) ==
    \/ InvalidEnumFilter(q.status, StatusValidos)
    \/ InvalidEnumFilter(q.priority, Prioridades)
    \/ InvalidIdFilter(q.user)
    \/ InvalidIdFilter(q.sector)

\* the request with each invalid filter left out
WithoutInvalidFilters(q) ==
    [q EXCEPT !.status = IF InvalidEnumFilter(q.status, StatusValidos) THEN "" ELSE q.status,
              !.priority = IF InvalidEnumFilter(q.priority, Prioridades) THEN "" ELSE q.priority,
              !.user = IF InvalidIdFilter(q.user) THEN Str0 ELSE q.user,
              !.sector = IF InvalidIdFilter(q.sector) THEN Str0 ELSE q.sector]

\* C11: a listing whose status or priority filter is not a valid value, or
\* whose user or sector filter does not parse as an integer, succeeds and
\* returns the rows the same request returns without that filter.
C11_InvalidFiltersIgnored ==
    (last.op = "list" /\ HasInvalidFilter(last.req)
        /\ last.req.limit = Str0 /\ last.req.offset = Str0) =>
        /\ last.status = 200
        /\ Range(last.out.rows) =
              {i \in TicketIds : ListWhere(WithoutInvalidFilters(last.req), i)}

------------------------------------------------------------------------------
(* Claims about ticket creation *)

CreateStep == last'.op = "create" /\ now' = now

\* the five required fields present, a valid priority and numeric ids
ValidCreate(a) ==
    /\ ~Falsy(a.Titulo) /\ ~Falsy(a.Descricao) /\ ~FalsySeq(a.ID_Cliente)
    /\ ~Falsy(a.Nome_Cliente)
    /\ a.Prioridade \in Prioridades
    /\ ~ParseInt(a.ID_Cliente).nan
    /\ FalsySeq(a.ID_Setor) \/ ~ParseInt(a.ID_Setor).nan

\* C12: a ticket created by a successful POST /tickets is stored with status
\* 'Aberto' and closed-at null, the response is 201 and lists one public path
\* under /uploads/ for each image file supplied, in upload order.
C12_CreateResponse ==
    [][CreateStep =>
        /\ ValidCreate(last'.req) => last'.status = 201
        /\ last'.status = 201 =>
              LET id == last'.out.id
                  a == last'.req
              IN  /\ id \notin DOMAIN chamados
                  /\ id \in DOMAIN chamados'
                  /\ chamados'[id].ChamadoStatus = "Aberto"
                  /\ chamados'[id].Data_Fechamento = NULL
                  /\ last'.out.TicketStatus = "Aberto"
                  /\ last'.out.Data_Fechamento = NULL
                  /\ Len(last'.out.Imagens) = a.files
                  /\ \A k \in 1..a.files :
                        /\ k \in DOMAIN last'.out.Imagens
                        /\ last'.out.Imagens[k] = PublicPath(FileName(fileSeq + k, a.ext))]_vars

------------------------------------------------------------------------------
(* Claims about image attachment *)

AttachStep == last'.op = "attach" /\ now' = now

\* the filename list a stored column holds (empty when the column is null)
StoredList(col) == ImagensAtuais(col)

\* the names generated for the files of request a, in upload order
GeneratedNames(a) == [k \in 1..a.files |-> FileName(fileSeq + k, a.ext)]

\* the previous list without the names of removeFilenames, order preserved
KeptNames(a, col) ==
    IF a.imagens_remover.given
    THEN SelectSeq(StoredList(col), LAMBDA img : img \notin Range(a.imagens_remover.names))
    ELSE StoredList(col)

\* C13: after a successful AttachImages the ticket's stored filename list is
\* the previous list without the names in removeFilenames (order kept)
\* followed by the newly generated names in upload order, and the stored
\* column is null when that list is empty.
C13_AttachStoredList ==
    [][(AttachStep /\ last'.status = 200) =>
        LET a == last'.req
            id == ParseInt(a.id).val
            expected == KeptNames(a, chamados[id].Imagem) \o GeneratedNames(a)
        IN  /\ StoredList(chamados'[id].Imagem) = expected
            /\ expected = <<>> => chamados'[id].Imagem = NULL]_vars

\* C18: in AttachImages a failure to delete the blob of a name listed in
\* removeFilenames is not fatal: the request still answers 200 and the stored
\* filename list is updated with the removals and additions.
C18_UnlinkFailureNotFatal ==
    [][(AttachStep /\ last'.req.imagens_remover.given /\ last'.req.imagens_remover.valid
          /\ last'.req.wfail = {}
          /\ ~ParseInt(last'.req.id).nan /\ ParseInt(last'.req.id).val \in TicketIds
          /\ \E img \in Range(last'.req.imagens_remover.names) :
                img \in uploads /\ img \in last'.req.ufail) =>
        LET a == last'.req
            id == ParseInt(a.id).val
        IN  /\ last'.status = 200
            /\ StoredList(chamados'[id].Imagem) =
                  KeptNames(a, chamados[id].Imagem) \o GeneratedNames(a)]_vars

------------------------------------------------------------------------------
(* Claims on the sectors *)

\* the rows whose name equals nome ignoring letter case
SameNameRows(tab, nome) == {i \in DOMAIN tab : Lower(tab[i].Nome) = Lower(nome)}

SetorNamesUnique(tab) ==
    \A i, j \in DOMAIN tab : i # j => Lower(tab[i].Nome) # Lower(tab[j].Nome)

\* C14: after any sequence of sector create, soft-delete and reactivate
\* requests no two sector rows, active or not, have names equal ignoring
\* letter case; a create whose name matches an inactive row reactivates that
\* row and inserts nothing, and one matching an active row is answered 409.
C14_SetorNamesUnique ==
    [][/\ SetorNamesUnique(setores')
       /\ (last'.op = "createSetor" /\ Trim(last'.req) # Str0) =>
            \A i \in SameNameRows(setores, Trim(last'.req)) :
                IF setores[i].Ativo = 0
                THEN /\ last'.status = 200
                     /\ setores' = [setores EXCEPT ![i].Ativo = 1]
                ELSE /\ last'.status = 409
                     /\ setores' = setores]_vars

\* a create with a differently cased name has reactivated an inactive sector
C14_Witness ==
    /\ last.op = "createSetor" /\ last.status = 200
    /\ Len(setores) = MaxSetores
    /\ \E i \in SetorIds : setores[i].Nome # Trim(last.req)
                           /\ Lower(setores[i].Nome) = Lower(Trim(last.req))
                           /\ setores[i].Ativo = 1

------------------------------------------------------------------------------
(* Claims on soft-deletion of users *)

\* a successful soft-delete of user id has just been followed by a successful
\* reactivation of the same user
DeleteThenReativar(id) ==
    /\ last.op = "deleteUser" /\ last.status = 200 /\ ParseInt(last.req).val = id
    /\ last'.op = "reativar" /\ last'.status = 200 /\ last'.req.tipo = "usuario"
    /\ ParseInt(last'.req.id).val = id

\* rows are never removed and a soft-delete or a reactivation changes nothing
\* but the active flag of its user
OnlyAtivoChanges ==
    /\ Len(clientes') >= Len(clientes)
    /\ (last'.op = "deleteUser" /\ last'.status = 200) =>
          \E id \in ClienteIds : /\ clientes' = [clientes EXCEPT ![id].Ativo = 0]
                                 /\ ParseInt(last'.req).val = id
    /\ (last'.op = "reativar" /\ last'.status = 200) =>
          \E id \in ClienteIds : /\ clientes' = [clientes EXCEPT ![id].Ativo = 1]
                                 /\ ParseInt(last'.req.id).val = id

\* C15 as stated: user rows are never removed, soft-delete and reactivation
\* only change the active flag, and every soft-delete followed by the
\* reactivation of the same user restores the user table to its state before
\* the soft-delete.
C15_DeleteReativarRestores ==
    [][/\ OnlyAtivoChanges
       /\ \A id \in ClienteIds :
            DeleteThenReativar(id) => clientes' = last.out.antes]_vars

\* C15 amended: as above, the table being restored when the user was active
\* before the soft-delete.
C15_DeleteActiveReativarRestores ==
    [][/\ OnlyAtivoChanges
       /\ \A id \in ClienteIds :
            (DeleteThenReativar(id) /\ last.out.antes[id].Ativo = 1) =>
                clientes' = last.out.antes]_vars

\* a soft-deleted user, one of two, has just been reactivated
C15_Witness ==
    /\ last.op = "reativar" /\ last.status = 200 /\ last.req.tipo = "usuario"
    /\ Len(clientes) = MaxUsers
    /\ last.out.antes[ParseInt(last.req.id).val].Ativo = 0
    /\ clientes = Reativado(last.out.antes, ParseInt(last.req.id).val)

------------------------------------------------------------------------------
(* Claims on ticket deletion *)

DeleteStep == last'.op = "delete" /\ now' = now

\* C16: a ticket row is removed only by a delete request of a user whose role
\* is Tecnico or Admin; a delete request made by or on behalf of a user of
\* role Usuario never removes a ticket.
C16_DeleteOnlyTecnicoOrAdmin ==
    [][(DeleteStep /\ DOMAIN chamados' # DOMAIN chamados) =>
        \E u \in UserSelect(last'.req.ID_Cliente) : EhTecnicoOuAdmin(u)]_vars

------------------------------------------------------------------------------
(* Claims on password recovery *)

\* C17: POST /recuperar-senha with a non-empty email answers 200 with the
\* same body whether or not a user has that email.
C17_RecuperarUniform ==
    (last.op = "recuperar" /\ last.req # Str0) =>
        /\ last.status = 200
        /\ last.body = RecuperarNaoEncontrado

------------------------------------------------------------------------------
(* Claims on the stored enumerations *)

\* C19: in every reachable state every ticket's stored status is one of
\* 'Aberto', 'Em Andamento', 'Fechado' and its stored priority is one of
\* 'Baixa', 'Media', 'Alta'.
C19_TicketEnums ==
    \A i \in TicketIds :
        /\ chamados[i].ChamadoStatus \in StatusValidos
        /\ chamados[i].Prioridade \in Prioridades

------------------------------------------------------------------------------
(* Claims on the stored roles *)

Perfis == {"Usuario", "Tecnico", "Admin"}

\* C20: in every reachable state every user's role is one of 'Usuario',
\* 'Tecnico', 'Admin', and a user registered through POST /clientes without
\* an explicit role has role 'Usuario'.
C20_UserRoles ==
    [][/\ \A i \in DOMAIN clientes' : clientes'[i].Perfil_Acesso \in Perfis
       /\ (last'.op = "register" /\ last'.status = 201 /\ Len(clientes') > Len(clientes)
             /\ Falsy(last'.req.Perfil_Acesso)) =>
            clientes'[Len(clientes')].Perfil_Acesso = "Usuario"]_vars

------------------------------------------------------------------------------
(* Claims on the fields a request leaves alone *)

\* C21: no UpdateTicket or AttachImages request, successful or failing,
\* changes a ticket's opened-at or owning user; UpdateTicket leaves the image
\* list unchanged, and AttachImages leaves title, description, priority,
\* sector, status, technician and closed-at unchanged.
C21_FrameOfUpdateAndAttach ==
    [][(UpdateStep \/ AttachStep) =>
        \A i \in DOMAIN chamados :
            /\ i \in DOMAIN chamados'
            /\ chamados'[i].Data_Abertura = chamados[i].Data_Abertura
            /\ chamados'[i].ID_CLIENTE = chamados[i].ID_CLIENTE
            /\ UpdateStep => chamados'[i].Imagem = chamados[i].Imagem
            /\ AttachStep =>
                  /\ chamados'[i].Titulo = chamados[i].Titulo
                  /\ chamados'[i].Descricao = chamados[i].Descricao
                  /\ chamados'[i].Prioridade = chamados[i].Prioridade
                  /\ chamados'[i].ID_SETOR = chamados[i].ID_SETOR
                  /\ chamados'[i].ChamadoStatus = chamados[i].ChamadoStatus
                  /\ chamados'[i].Tecnico = chamados[i].Tecnico
                  /\ chamados'[i].Data_Fechamento = chamados[i].Data_Fechamento]_vars

\* images were attached to a ticket that an update had closed after the
\* clock moved on from its creation
C21_Witness ==
    /\ last.op = "attach" /\ last.status = 200 /\ last.out.imagens_adicionadas > 0
    /\ \E i \in TicketIds :
          /\ chamados[i].ChamadoStatus = "Fechado"
          /\ chamados[i].Titulo = "T2"
          /\ chamados[i].Imagem # NULL
          /\ chamados[i].Data_Fechamento # Val(chamados[i].Data_Abertura)

------------------------------------------------------------------------------
(* Claims on rejected creations and on the upload directory *)

\* C22: a POST /tickets request answered 400 leaves storage unchanged: no
\* ticket row is inserted and no file is written to the upload directory.
C22_RejectedCreateLeavesStorage ==
    [][(CreateStep /\ last'.status = 400) =>
        /\ chamados' = chamados
        /\ uploads' = uploads]_vars

\* the names listed by the tickets of tab other than ticket id
ListedByOthers(tab, id) ==
    UNION {Range(StoredList(tab[i].Imagem)) : i \in DOMAIN tab \ {id}}

\* C23: with no file operation failing, after any sequence of ticket
\* creations and AttachImages requests every name in a ticket's stored image
\* list has its file in the upload directory, and an AttachImages request
\* deletes no file that another ticket lists or that was not in the target
\* ticket's list.
C23_ListedBlobsExist ==
    [][/\ \A i \in DOMAIN chamados' :
            Range(StoredList(chamados'[i].Imagem)) \subseteq uploads'
       /\ (AttachStep /\ ~ParseInt(last'.req.id).nan
              /\ ParseInt(last'.req.id).val \in TicketIds) =>
            LET id == ParseInt(last'.req.id).val
            IN  /\ (uploads \ uploads') \cap ListedByOthers(chamados, id) = {}
                /\ (uploads \ uploads') \subseteq Range(StoredList(chamados[id].Imagem))]_vars

------------------------------------------------------------------------------
(* Claims on interleaved updates *)

\* C24: when UpdateTicket requests on the same ticket interleave, closed-at
\* does not change in a step in which the stored status is 'Fechado' both
\* before and after.
C24_ClosedAtNotOverwritten ==
    [][\A i \in DOMAIN chamados \cap DOMAIN chamados' :
          (chamados[i].ChamadoStatus = "Fechado" /\ chamados'[i].ChamadoStatus = "Fechado") =>
              chamados'[i].Data_Fechamento = chamados[i].Data_Fechamento]_vars

====
